---- MODULE Spec2Model ----
(***************************************************************************)
(* State-machine model of the variable linker of the analyzer              *)
(* (crates/turbopack/src/analyzer/linker.rs): link, link_internal and the  *)
(* nested child_visitor, with the LinkCache and the circle_stack sets.     *)
(*                                                                         *)
(* Every activation of link_internal / child_visitor is a frame; the async *)
(* recursion is unfolded into one action per straight-line stretch of code *)
(* between two await points.                                               *)
(***************************************************************************)
EXTENDS Integers, Sequences, FiniteSets, TLC

(***************************************************************************)
(* Bounds of the model.                                                    *)
(***************************************************************************)
MaxCalls == 2
MaxFrames == 16
\* The same limit when sibling children are polled concurrently: there the
\* recursion has no other bound.
MaxParFrames == 8

(***************************************************************************)
(* JsValue: the variants the linker distinguishes (Variable, Unknown) and  *)
(* representative atomic and composite variants.  o is the optional origin *)
(* of an Unknown (<<>> is None, <<v>> is Some(v)); ch are the children the *)
(* fan-out visits.                                                         *)
(***************************************************************************)
JsValue(t, id, n, r, o, ch) ==
    [t |-> t, id |-> id, n |-> n, r |-> r, o |-> o, ch |-> ch]

Constant(n) == JsValue("Constant", "", n, "", <<>>, <<>>)

Variable(id) == JsValue("Variable", id, 0, "", <<>>, <<>>)

Unknown(o, r) == JsValue("Unknown", "", 0, r, o, <<>>)

Add(ch) == JsValue("Add", "", 0, "", <<>>, ch)

Array(ch) == JsValue("Array", "", 0, "", <<>>, ch)

CircularReason == "circular variable reference"

MissingReason == "no value of this variable analysed"

\* (variant: a circular reference is left in place)
CircularLeftInPlace(var) == Variable(var)

\* lines 79-82
CircularUnknown(var) == Unknown(<<Variable(var)>>, CircularReason)

\* lines 95-98
MissingUnknown(var) == Unknown(<<Variable(var)>>, MissingReason)

(***************************************************************************)
(* Option<HashSet<Id>>: the second component of link_internal's result.    *)
(***************************************************************************)
None == [some |-> FALSE, s |-> {}]

Some(s) == [some |-> TRUE, s |-> s]

(***************************************************************************)
(* Canonicalization of the value model.  An Add whose children contain an  *)
(* Add is flattened into one Add; the other variants are canonical as soon *)
(* as their children are.                                                  *)
(***************************************************************************)
RECURSIVE FlattenAdd(_)
FlattenAdd(ch) ==
    IF ch = <<>> THEN <<>>
    ELSE LET h == Head(ch)
         IN  (IF h.t = "Add" THEN h.ch ELSE <<h>>) \o FlattenAdd(Tail(ch))

normalize_shallow(v) ==
    IF v.t = "Add" /\ \E i \in DOMAIN v.ch : v.ch[i].t = "Add"
    THEN Add(FlattenAdd(v.ch))
    ELSE v

RECURSIVE normalize(_)
normalize(v) ==
    IF v.ch = <<>> THEN v
    ELSE normalize_shallow([v EXCEPT !.ch = [i \in DOMAIN v.ch |-> normalize(v.ch[i])]])

RECURSIVE HasVariable(_)
HasVariable(v) ==
    \/ v.t = "Variable"
    \/ \E i \in DOMAIN v.ch : HasVariable(v.ch[i])

RECURSIVE HasUnknown(_, _)
HasUnknown(v, r) ==
    \/ v.t = "Unknown" /\ v.r = r
    \/ \E i \in DOMAIN v.ch : HasUnknown(v.ch[i], r)

(***************************************************************************)
(* Inputs of link: the variable identities, the bindings a VarGraph may    *)
(* hold (canonical, as the graph builder stores them), the root values and *)
(* the visitors.                                                           *)
(***************************************************************************)
Ids == {"a", "b", "c"}

\* the identities a VarGraph may bind; "c" is never analysed
BoundIds == {"a", "b"}

K1 == Constant(1)

K2 == Constant(2)

Va == Variable("a")

Vb == Variable("b")

Vc == Variable("c")

Bindings ==
    { K1, Va, Vb,
      Add(<<Vb, K1>>),
      Array(<<Vc, Va>>) }

VarGraph ==
    UNION { [D -> Bindings] : D \in SUBSET BoundIds }

Roots ==
    { Va,
      Add(<<Add(<<Vb, K2>>)>>),
      Array(<<Vb, Va>>) }

(***************************************************************************)
(* The visitor F: Fn(JsValue) -> Result<(JsValue, bool)>.  kind "keep"     *)
(* never changes a value; kind "fold" replaces an Add of constants by      *)
(* their sum.  failOn names the variant on which the visitor returns Err.  *)
(***************************************************************************)
Visitors ==
    { [kind |-> "keep", failOn |-> "none"],
      [kind |-> "fold", failOn |-> "none"],
      [kind |-> "keep", failOn |-> "Add"],
      [kind |-> "fold", failOn |-> "Unknown"] }

RECURSIVE SumOf(_)
SumOf(ch) == IF ch = <<>> THEN 0 ELSE Head(ch).n + SumOf(Tail(ch))

Foldable(v) ==
    /\ v.t = "Add"
    /\ v.ch # <<>>
    /\ \A i \in DOMAIN v.ch : v.ch[i].t = "Constant"

visitor_call(vis, v) ==
    IF vis.failOn = v.t THEN [ok |-> FALSE, val |-> v, m |-> FALSE]
    ELSE IF vis.kind = "fold" /\ Foldable(v)
         THEN [ok |-> TRUE, val |-> Constant(SumOf(v.ch)), m |-> TRUE]
         ELSE [ok |-> TRUE, val |-> v, m |-> FALSE]

(***************************************************************************)
(* State.                                                                  *)
(*   graph, visitor  the arguments shared by the calls of link             *)
(*   cache           LinkCache.inner, shared by the calls                  *)
(*   phase           "idle" between calls of link, "running" inside one    *)
(*   frames          the activations of link_internal ("var" for the       *)
(*                   Variable arm, "node" for the other arm) and of        *)
(*                   child_visitor ("child") that have not yet been        *)
(*                   consumed by their caller, by frame number             *)
(*   stacks          the HashSet<Id> objects circle_stack can refer to:    *)
(*                   0 is the set link creates, c is my_circle_stack of    *)
(*                   the child_visitor frame c                             *)
(*   par             whether the fan-out polls sibling children            *)
(*                   concurrently                                          *)
(*   probe, log      history: counters of the running call and the         *)
(*                   summaries of the finished calls                       *)
(***************************************************************************)
VARIABLES graph, visitor, cache, phase, frames, stacks, par, probe, log

vars == <<graph, visitor, cache, phase, frames, stacks, par, probe, log>>

NewProbe(root) ==
    [root |-> root, cache0 |-> cache, lookups |-> 0, visits |-> 0,
     circ |-> FALSE, vfail |-> FALSE]

\* The value in the result of an activation that has not returned.
NoValue == Constant(0)

\* An activation.  cs0, kidres, calls and changes are history: the circle
\* stack at entry, the set each child returned, and the numbers of visitor
\* invocations and of invocations that reported a change.
Frame(kind, parent, slot, val, ref) ==
    [kind |-> kind, parent |-> parent, slot |-> slot, val |-> val,
     pc |-> IF kind = "child" THEN "await" ELSE "start",
     ref |-> ref,
     res |-> [val |-> NoValue, set |-> None],
     kids |-> [i \in DOMAIN val.ch |-> "new"],
     modified |-> FALSE, rcr |-> {}, csm |-> {}, wrote |-> {},
     cs0 |-> {}, kidres |-> [i \in DOMAIN val.ch |-> None],
     calls |-> 0, changes |-> 0]

\* (variant: the Variable arm is never taken)
InternalFrameOtherArm(parent, val, ref) == Frame("node", parent, 0, val, ref)

\* The arm of the match in link_internal that a value takes.
InternalFrame(parent, val, ref) ==
    Frame(IF val.t = "Variable" THEN "var" ELSE "node", parent, 0, val, ref)

\* An activation with the content of its circle_stack when it is entered
\* (history).
Entered(fr, cs) == [fr EXCEPT !.cs0 = cs]

FrameIds == DOMAIN frames

FrameCap == IF par THEN MaxParFrames ELSE MaxFrames

Callee(f) == CHOOSE g \in FrameIds : frames[g].parent = f

RECURSIVE AncSelf(_)
AncSelf(f) == IF f = 0 THEN {} ELSE {f} \cup AncSelf(frames[f].parent)

\* The smallest frame number not in use.
FreshId(used) ==
    CHOOSE n \in 1..(MaxFrames + 2) :
        n \notin used /\ \A m \in 1..(n - 1) : m \in used

Without(fn, gone) == [x \in DOMAIN fn \ gone |-> fn[x]]

\* The frames with one more cache write recorded for f and its callers.
Wrote(fr, f, id) ==
    [g \in DOMAIN fr |-> IF g \in AncSelf(f) THEN [fr[g] EXCEPT !.wrote = @ \cup {id}]
                                                ELSE fr[g]]

Init ==
    /\ graph \in VarGraph
    /\ visitor \in Visitors
    /\ cache = << >>
    /\ phase = "idle"
    /\ frames = << >>
    /\ stacks = (0 :> {})
    /\ par = FALSE
    /\ probe = NewProbe(K1)
    /\ log = << >>

(***************************************************************************)
(* link, lines 44-45: normalize the root, start link_internal on it with   *)
(* a fresh circle_stack.                                                   *)
(***************************************************************************)
PreviousResults == { log[i].val : i \in { j \in DOMAIN log : log[j].ok } }

Call(root) ==
    /\ phase = "idle"
    /\ Len(log) < MaxCalls
    /\ phase' = "running"
    /\ frames' = (1 :> InternalFrame(0, normalize(root), 0))
    /\ stacks' = (0 :> {})
    /\ probe' = NewProbe(root)
    /\ UNCHANGED <<graph, visitor, cache, par, log>>

(***************************************************************************)
(* link_internal, Variable arm.                                            *)
(***************************************************************************)
\* (variant: the membership test of line 77 never succeeds)
IsCircularNever(stack, var) == FALSE

\* line 77: circle_stack.contains(&var)
IsCircular(stack, var) == var \in stack

\* (variant: line 103 does not remove the variable itself)
StrippedSetKeepsVar(set, var) == IF set.some THEN set.s ELSE {}

\* (variant: the returned set is passed on as it is, None as None's empty set)
StrippedSetUntouched(set, var) == set.s

\* lines 101-110: the set left after removing the variable itself
\* (None becomes the empty set)
StrippedSet(set, var) == IF set.some THEN set.s \ {var} ELSE {}

\* (variant: the value is stored whatever the set holds)
AdmitsAlways(set, var) == TRUE

\* (variant: the value is stored only if no set was reported)
AdmitsOnlyNone(set, var) == ~set.some

\* lines 104 and 107-109: whether the value is stored in the cache
Admits(set, var) == StrippedSet(set, var) = {}

\* (variant: the map is replaced instead of extended)
store_replacing(c, id, value) == (id :> value)

\* (variant: nothing is inserted)
store_nothing(c, id, value) == c

\* LinkCache::store
store(c, id, value) == (id :> value) @@ c

\* (variant: the lookup always misses)
get_none(c, id) == <<>>

\* LinkCache::get: <<>> is None, <<v>> is Some(v)
get(c, id) == IF id \in DOMAIN c THEN <<c[id]>> ELSE <<>>

\* (variant: a missing binding yields an Unknown without origin)
BoundWithoutOrigin(var) ==
    IF var \in DOMAIN graph THEN graph[var] ELSE Unknown(<<>>, MissingReason)

\* graph.values.get(&var), lines 92-99
Bound(var) ==
    IF var \in DOMAIN graph THEN graph[var] ELSE MissingUnknown(var)

\* lines 77-84
VarCircular(f) ==
    /\ phase = "running"
    /\ frames[f].kind = "var" /\ frames[f].pc = "start"
    /\ LET var == frames[f].val.id
       IN  /\ IsCircular(stacks[frames[f].ref], var)
           /\ frames' = [frames EXCEPT ![f].pc = "done",
                           ![f].res = [val |-> CircularUnknown(var),
                                       set |-> Some({var})]]
    /\ probe' = [probe EXCEPT !.circ = TRUE]
    /\ UNCHANGED <<graph, visitor, cache, phase, stacks, par, log>>

\* lines 86-90
VarCacheHit(f) ==
    /\ phase = "running"
    /\ frames[f].kind = "var" /\ frames[f].pc = "start"
    /\ LET var == frames[f].val.id
       IN  /\ ~IsCircular(stacks[frames[f].ref], var)
           /\ get(cache, var) # <<>>
           /\ frames' = [frames EXCEPT ![f].pc = "done",
                           ![f].res = [val |-> get(cache, var)[1],
                                       set |-> Some({})]]
    /\ UNCHANGED <<graph, visitor, cache, phase, stacks, par, probe, log>>

\* lines 91-100, up to the await of the recursive call
VarEnter(f) ==
    /\ phase = "running"
    /\ frames[f].kind = "var" /\ frames[f].pc = "start"
    /\ Cardinality(FrameIds) < FrameCap
    /\ LET var == frames[f].val.id
           ref == frames[f].ref
       IN  /\ ~IsCircular(stacks[ref], var)
           /\ get(cache, var) = <<>>
           /\ stacks' = [stacks EXCEPT ![ref] = @ \cup {var}]
           /\ frames' = (FreshId(FrameIds) :>
                            Entered(InternalFrame(f, Bound(var), ref),
                                    stacks[ref] \cup {var}))
                         @@ [frames EXCEPT ![f].pc = "await"]
    /\ probe' = [probe EXCEPT !.lookups = @ + 1]
    /\ UNCHANGED <<graph, visitor, cache, phase, par, log>>

\* lines 100-110, after the recursive call has returned Ok: the variable is
\* removed from the returned set and the value is stored if the set is empty
VarAdmit(f) ==
    /\ phase = "running"
    /\ frames[f].kind = "var" /\ frames[f].pc = "await"
    /\ frames[Callee(f)].pc = "done"
    /\ LET var == frames[f].val.id
           res == frames[Callee(f)].res
           admit == Admits(res.set, var)
       IN  /\ cache' = IF admit THEN store(cache, var, res.val) ELSE cache
           /\ frames' =
                LET fr == Without([frames EXCEPT ![f].pc = "admitted",
                                     ![f].res = [val |-> res.val,
                                                 set |-> Some(StrippedSet(res.set, var))]],
                                  {Callee(f)})
                IN  IF admit THEN Wrote(fr, f, var) ELSE fr
    /\ UNCHANGED <<graph, visitor, phase, stacks, par, probe, log>>

\* (variant: the variable is left in the circle stack)
VarExitKeeps(f) ==
    /\ phase = "running"
    /\ frames[f].kind = "var" /\ frames[f].pc = "admitted"
    /\ frames' = [frames EXCEPT ![f].pc = "done"]
    /\ UNCHANGED <<graph, visitor, cache, phase, stacks, par, probe, log>>

\* lines 111-114: the variable leaves the circle stack, the result is returned
VarExit(f) ==
    /\ phase = "running"
    /\ frames[f].kind = "var" /\ frames[f].pc = "admitted"
    /\ stacks' = [stacks EXCEPT ![frames[f].ref] = @ \ {frames[f].val.id}]
    /\ frames' = [frames EXCEPT ![f].pc = "done"]
    /\ UNCHANGED <<graph, visitor, cache, phase, par, probe, log>>

(***************************************************************************)
(* link_internal, the other arm: fan-out over the children through         *)
(* child_visitor, then the visitor loop.                                   *)
(***************************************************************************)
\* lines 143-144: the accumulators; take(circle_stack) leaves the set empty
NodeEnter(f) ==
    /\ phase = "running"
    /\ frames[f].kind = "node" /\ frames[f].pc = "start"
    /\ frames[f].val.ch # <<>>
    /\ frames' = [frames EXCEPT ![f].pc = "fanout", ![f].rcr = {},
                    ![f].csm = stacks[frames[f].ref]]
    /\ stacks' = [stacks EXCEPT ![frames[f].ref] = {}]
    /\ UNCHANGED <<graph, visitor, cache, phase, par, probe, log>>

\* lines 143-162 for a value without children: the fan-out returns the value
\* unmodified at once and the circle stack taken at line 144 is put back
NodeLeaf(f) ==
    /\ phase = "running"
    /\ frames[f].kind = "node" /\ frames[f].pc = "start"
    /\ frames[f].val.ch = <<>>
    /\ frames' = [frames EXCEPT ![f].pc = "visit"]
    /\ UNCHANGED <<graph, visitor, cache, phase, stacks, par, probe, log>>

\* Whether the fan-out may start the child in slot i now.
MayStart(f, i) ==
    /\ frames[f].kids[i] = "new"
    /\ par \/ \A j \in DOMAIN frames[f].kids : frames[f].kids[j] # "run"

\* child_visitor, lines 130-132: take the shared circle stack, recurse
ChildStart(f, i) ==
    /\ phase = "running"
    /\ frames[f].kind = "node" /\ frames[f].pc = "fanout"
    /\ i \in DOMAIN frames[f].kids
    /\ MayStart(f, i)
    /\ Cardinality(FrameIds) + 1 < FrameCap
    /\ LET c == FreshId(FrameIds)
           g == FreshId(FrameIds \cup {c})
       IN  /\ frames' = (c :> Frame("child", f, i, NoValue, frames[f].ref))
                         @@ (g :> Entered(InternalFrame(c, frames[f].val.ch[i], c),
                                          frames[f].csm))
                         @@ [frames EXCEPT ![f].kids[i] = "run", ![f].csm = {}]
           /\ stacks' = (c :> frames[f].csm) @@ stacks
    /\ UNCHANGED <<graph, visitor, cache, phase, par, probe, log>>

\* child_visitor, lines 133-141, and the fan-out storing the child's result
ChildExit(c) ==
    /\ phase = "running"
    /\ frames[c].kind = "child" /\ frames[c].pc = "await"
    /\ frames[Callee(c)].pc = "done"
    /\ LET f == frames[c].parent
           i == frames[c].slot
           res == frames[Callee(c)].res
           modified == res.set.some
           value == IF modified THEN normalize_shallow(res.val) ELSE res.val
       IN  frames' = Without([frames EXCEPT
                                ![f].csm = stacks[c],
                                ![f].rcr = IF modified THEN @ \cup res.set.s ELSE @,
                                ![f].val.ch[i] = value,
                                ![f].modified = @ \/ modified,
                                ![f].kidres[i] = res.set,
                                ![f].kids[i] = "done"],
                             {c, Callee(c)})
    /\ stacks' = Without(stacks, {c})
    /\ UNCHANGED <<graph, visitor, cache, phase, par, probe, log>>

\* lines 157-162: the fan-out is complete
NodeJoin(f) ==
    /\ phase = "running"
    /\ frames[f].kind = "node" /\ frames[f].pc = "fanout"
    /\ \A i \in DOMAIN frames[f].kids : frames[f].kids[i] = "done"
    /\ stacks' = [stacks EXCEPT ![frames[f].ref] = frames[f].csm]
    /\ frames' = [frames EXCEPT ![f].pc = "visit",
                    ![f].val = IF frames[f].modified
                               THEN normalize_shallow(@) ELSE @]
    /\ UNCHANGED <<graph, visitor, cache, phase, par, probe, log>>

\* (variant: a set is returned only if it names a circular reference)
NodeResultOnlyCircular(val, modified, rcr) ==
    [val |-> val, set |-> IF modified /\ rcr # {} THEN Some(rcr) ELSE None]

\* lines 178-185
NodeResult(val, modified, rcr) ==
    [val |-> val, set |-> IF modified THEN Some(rcr) ELSE None]

\* (variant: the loop is left after the first invocation, whatever it reports)
VisitOnce(f) ==
    /\ phase = "running"
    /\ frames[f].kind = "node" /\ frames[f].pc = "visit"
    /\ LET r == visitor_call(visitor, frames[f].val)
       IN  /\ frames' =
                IF ~r.ok THEN [frames EXCEPT ![f].pc = "err", ![f].calls = @ + 1]
                ELSE [frames EXCEPT ![f].pc = "done", ![f].val = r.val,
                        ![f].calls = @ + 1,
                        ![f].changes = IF r.m THEN @ + 1 ELSE @,
                        ![f].modified = @ \/ r.m,
                        ![f].res = NodeResult(r.val, frames[f].modified \/ r.m,
                                              frames[f].rcr)]
           /\ probe' = [probe EXCEPT !.visits = @ + 1,
                                     !.vfail = @ \/ ~r.ok]
    /\ UNCHANGED <<graph, visitor, cache, phase, stacks, par, log>>

\* lines 165-174, one iteration of the loop, and lines 178-185 on leaving it
Visit(f) ==
    /\ phase = "running"
    /\ frames[f].kind = "node" /\ frames[f].pc = "visit"
    /\ LET r == visitor_call(visitor, frames[f].val)
       IN  /\ frames' =
                IF ~r.ok THEN [frames EXCEPT ![f].pc = "err", ![f].calls = @ + 1]
                ELSE IF r.m
                     THEN [frames EXCEPT ![f].val = normalize_shallow(r.val),
                                         ![f].modified = TRUE,
                                         ![f].calls = @ + 1,
                                         ![f].changes = @ + 1]
                     ELSE [frames EXCEPT ![f].pc = "done", ![f].val = r.val,
                             ![f].calls = @ + 1,
                             ![f].res = NodeResult(r.val, frames[f].modified,
                                                   frames[f].rcr)]
           /\ probe' = [probe EXCEPT !.visits = @ + 1,
                                     !.vfail = @ \/ ~r.ok]
    /\ UNCHANGED <<graph, visitor, cache, phase, stacks, par, log>>

\* The activations that are dropped when f returns an Err: those of the
\* children of f that have not themselves returned an Err, with all they
\* have called (none when the children are resolved one at a time).
Dropped(f) ==
    { g \in FrameIds : \E c \in AncSelf(g) : /\ frames[c].parent = f
                                             /\ frames[c].pc # "err" }

\* (variant: an Err of the awaited call is dropped and the value returned
\* as unmodified)
PropagateDropsErr(f) ==
    /\ phase = "running"
    /\ frames[f].pc \in {"await", "fanout"}
    /\ \E g \in FrameIds : frames[g].parent = f /\ frames[g].pc = "err"
    /\ frames' = [frames EXCEPT ![f].pc = "done"]
    /\ UNCHANGED <<graph, visitor, cache, phase, stacks, par, probe, log>>

\* the ? operators of lines 100, 132 and 157: an Err of the awaited call
\* is returned at once
Propagate(f) ==
    /\ phase = "running"
    /\ frames[f].pc \in {"await", "fanout"}
    /\ \E g \in FrameIds : frames[g].parent = f /\ frames[g].pc = "err"
    /\ frames' = Without([frames EXCEPT ![f].pc = "err"], Dropped(f))
    /\ stacks' = Without(stacks, Dropped(f))
    /\ UNCHANGED <<graph, visitor, cache, phase, par, probe, log>>

(***************************************************************************)
(* link, lines 45-46: the result of the outermost link_internal.           *)
(***************************************************************************)
\* the variables whose resolution was entered and not completed
Aborted ==
    { frames[f].val.id : f \in { g \in FrameIds : /\ frames[g].kind = "var"
                                                  /\ frames[g].pc \in {"await", "err"} } }

Return ==
    /\ phase = "running"
    /\ frames[1].pc \in {"done", "err"}
    /\ log' = Append(log,
                [root |-> probe.root, ok |-> frames[1].pc = "done",
                 val |-> frames[1].res.val, set |-> frames[1].res.set,
                 cache0 |-> probe.cache0, cache1 |-> cache,
                 lookups |-> probe.lookups, visits |-> probe.visits,
                 circ |-> probe.circ, vfail |-> probe.vfail,
                 aborted |-> Aborted, wrote |-> frames[1].wrote])
    /\ phase' = "idle"
    /\ frames' = << >>
    /\ stacks' = (0 :> {})
    /\ UNCHANGED <<graph, visitor, cache, par, probe>>

Step ==
    \/ \E f \in FrameIds : VarCircular(f)
    \/ \E f \in FrameIds : VarCacheHit(f)
    \/ \E f \in FrameIds : VarEnter(f)
    \/ \E f \in FrameIds : VarAdmit(f)
    \/ \E f \in FrameIds : VarExit(f)
    \/ \E f \in FrameIds : NodeEnter(f)
    \/ \E f \in FrameIds : NodeLeaf(f)
    \/ \E f \in FrameIds : \E i \in DOMAIN frames[f].kids : ChildStart(f, i)
    \/ \E f \in FrameIds : ChildExit(f)
    \/ \E f \in FrameIds : NodeJoin(f)
    \/ \E f \in FrameIds : Visit(f)
    \/ \E f \in FrameIds : Propagate(f)
    \/ Return

Next ==
    \/ \E root \in Roots \cup PreviousResults : Call(root)
    \/ Step

Spec == Init /\ [][Next]_vars

\* The same program with a fan-out that polls the children of a value
\* concurrently.
InitPar ==
    /\ graph \in VarGraph
    /\ visitor \in Visitors
    /\ cache = << >>
    /\ phase = "idle"
    /\ frames = << >>
    /\ stacks = (0 :> {})
    /\ par = TRUE
    /\ probe = NewProbe(K1)
    /\ log = << >>

SpecPar == InitPar /\ [][Next]_vars

\* The executor polls a future that can make progress.
FairSpec == Spec /\ WF_vars(Step)

(***************************************************************************)
(* Properties.                                                             *)
(***************************************************************************)
Finished == DOMAIN log

\* the variable frames whose resolution is in progress
InProgress ==
    { f \in FrameIds : frames[f].kind = "var" /\ frames[f].pc \in {"await", "admitted"} }

\* the identities under resolution on the path from the outermost call to f
PathIds(f) == { frames[g].val.id : g \in AncSelf(f) \cap InProgress }

\* a variable is never under resolution twice on one path
NoReentry ==
    \A f \in InProgress : \A g \in (AncSelf(f) \cap InProgress) \ {f} :
        frames[g].val.id # frames[f].val.id

\* the recursion never reaches the bound on the number of frames
DepthBounded == Cardinality(FrameIds) + 1 < MaxFrames

RECURSIVE VariablesOf(_)
VariablesOf(v) ==
    IF v.t = "Variable" THEN {v.id}
    ELSE UNION { VariablesOf(v.ch[i]) : i \in DOMAIN v.ch }

\* the identities reachable from var through the bindings in at least one step
RECURSIVE ReachableFrom(_, _)
ReachableFrom(S, n) ==
    IF n = 0 THEN S
    ELSE LET T == S \cup UNION { VariablesOf(graph[v]) : v \in S \cap DOMAIN graph }
         IN  ReachableFrom(T, n - 1)

OnCycle(var) ==
    /\ var \in DOMAIN graph
    /\ var \in ReachableFrom(VariablesOf(graph[var]), Cardinality(Ids))

CycleMarked ==
    \A i \in Finished :
        (log[i].ok /\ log[i].root.t = "Variable" /\ OnCycle(log[i].root.id))
            => HasUnknown(log[i].val, CircularReason)

\* C1: with children resolved one at a time, every call of link on any graph
\* (cyclic ones included) returns; a variable met again while its resolution
\* is in progress on the same path is not entered again, and the result of
\* resolving a variable that lies on a reference cycle contains an Unknown
\* with reason "circular variable reference".
C1_TerminatesOnCycles ==
    /\ [](NoReentry /\ DepthBounded /\ CycleMarked)
    /\ []<>(phase = "idle")

CyclicGraph == ("a" :> Vb) @@ ("b" :> Va)

C1_Witness ==
    \E i \in Finished :
        /\ graph = CyclicGraph
        /\ log[i].root = Va
        /\ log[i].ok
        /\ log[i].circ
        /\ HasUnknown(log[i].val, CircularReason)

\* the calls of link on Variable(a) in the graph {a: Variable(b),
\* b: Variable(a)} that started from an empty cache
CyclicCalls ==
    { i \in Finished : /\ graph = CyclicGraph
                       /\ log[i].root = Va
                       /\ log[i].cache0 = << >> }

\* C2 as stated: for {a: Variable(b), b: Variable(a)} and root Variable(a),
\* from an empty cache, link returns the circular-reference Unknown of a and
\* afterwards the cache maps neither a nor b to that Unknown.
C2_NoPlaceholderCached ==
    \A i \in CyclicCalls :
        /\ log[i].ok
        /\ log[i].val = CircularUnknown("a")
        /\ \A v \in DOMAIN log[i].cache1 : log[i].cache1[v] # CircularUnknown("a")

\* C2 amended: link returns the circular-reference Unknown of a; afterwards
\* the cache holds no entry for b, and it holds exactly the entry that maps
\* a to that Unknown (the set returned for a is empty once a itself is
\* removed, so lines 103-105 store it).
C2_OnlyRootCached ==
    \A i \in CyclicCalls :
        /\ log[i].ok
        /\ log[i].val = CircularUnknown("a")
        /\ log[i].cache1 = ("a" :> CircularUnknown("a"))

C2_Witness ==
    \E i \in CyclicCalls : log[i].ok /\ "b" \notin DOMAIN log[i].cache1

\* the variable frames that have returned and wait for their caller
Returned == { f \in FrameIds : frames[f].kind = "var" /\ frames[f].pc = "done" }

\* C3: a resolution of a variable v that returns a non-empty replaced-
\* reference set S has written no cache entry for v nor for any identity of
\* S (wrote collects the identities stored by the frame and by the calls
\* below it).
C3_NoCachingOnOpenCycle ==
    \A f \in Returned :
        frames[f].res.set.s # {} =>
            frames[f].wrote \cap ({frames[f].val.id} \cup frames[f].res.set.s) = {}

C3_Witness ==
    \E f \in Returned :
        /\ frames[f].res.set.s # {}
        /\ frames[f].val.id \notin DOMAIN cache
        /\ frames[f].wrote # {}

\* the visitor that reports changed = false on every value and never fails
KeepVisitor == [kind |-> "keep", failOn |-> "none"]

\* the variables of the chain of variable references that starts at var
RECURSIVE ChainVars(_, _)
ChainVars(var, n) ==
    IF n = 0 \/ var \notin DOMAIN graph THEN {var}
    ELSE IF graph[var].t = "Variable"
         THEN {var} \cup ChainVars(graph[var].id, n - 1)
         ELSE {var}

\* the binding at the end of the chain, <<>> if the chain ends in no binding
\* or does not end
RECURSIVE ChainEnd(_, _)
ChainEnd(var, n) ==
    IF n = 0 \/ var \notin DOMAIN graph THEN <<>>
    ELSE IF graph[var].t = "Variable" THEN ChainEnd(graph[var].id, n - 1)
         ELSE <<graph[var]>>

EndsInConstant(var) ==
    /\ ChainEnd(var, Cardinality(Ids)) # <<>>
    /\ ChainEnd(var, Cardinality(Ids))[1].t = "Constant"

\* C4: for a variable bound through a chain of variable references to a
\* constant, a visitor that always reports changed = false and an empty
\* cache, link returns the constant and the cache afterwards maps every
\* variable of the chain to it.
C4_ChainResolved ==
    \A i \in Finished :
        (/\ visitor = KeepVisitor
         /\ log[i].cache0 = << >>
         /\ log[i].root.t = "Variable"
         /\ EndsInConstant(log[i].root.id))
        => LET end == ChainEnd(log[i].root.id, Cardinality(Ids))[1]
           IN  /\ log[i].ok
               /\ log[i].val = end
               /\ \A v \in ChainVars(log[i].root.id, Cardinality(Ids)) :
                      v \in DOMAIN log[i].cache1 /\ log[i].cache1[v] = end

C4_Witness ==
    \E i \in Finished :
        /\ graph = ("a" :> Vb) @@ ("b" :> K1)
        /\ visitor = KeepVisitor
        /\ log[i].cache0 = << >>
        /\ log[i].root = Va
        /\ log[i].val = K1
        /\ log[i].cache1 = ("a" :> K1) @@ ("b" :> K1)

\* C5: after link has resolved Variable(v) without meeting a circular
\* reference, a later link of Variable(v) with the same cache returns the
\* same value, looks nothing up in the graph, does not call the visitor and
\* leaves the cache as it was.
C5_SecondLinkFromCache ==
    \A i \in Finished : \A j \in Finished :
        (/\ i < j
         /\ log[i].root.t = "Variable"
         /\ log[i].ok
         /\ ~log[i].circ
         /\ log[j].root = log[i].root)
        => /\ log[j].ok
           /\ log[j].val = log[i].val
           /\ log[j].lookups = 0
           /\ log[j].visits = 0
           /\ log[j].cache1 = log[j].cache0

C5_Witness ==
    \E i \in Finished : \E j \in Finished :
        /\ i < j
        /\ log[i].root = Va
        /\ log[i].ok
        /\ ~log[i].circ
        /\ log[i].lookups > 1
        /\ log[i].visits > 0
        /\ log[j].root = Va
        /\ log[j].val = log[i].val

C7_FailsOnlyByVisitor ==
    \A i \in Finished :
        /\ log[i].ok <=> ~log[i].vfail
        /\ visitor.failOn = "none" => log[i].ok

C7_Witness ==
    \E i \in Finished :
        /\ ~log[i].ok
        /\ log[i].vfail
        /\ log[i].root.t = "Variable"
        /\ Cardinality(log[i].aborted) > 1

\* whether cache c keeps every entry of cache b
Extends(c, b) == \A v \in DOMAIN b : v \in DOMAIN c /\ c[v] = b[v]

\* C8 as stated: after a call of link that returned Err the cache equals
\* the cache as it was before the call.
C8_CacheUntouchedOnFailure ==
    \A i \in Finished : ~log[i].ok => log[i].cache1 = log[i].cache0

\* C8 amended: after a call of link that returned Err the cache holds no
\* entry for a variable whose resolution the failure aborted and keeps every
\* entry it had before the call; the entries added are those of the variables
\* whose own resolution returned Ok before the failure.
C8_NoAbortedResolutionCached ==
    \A i \in Finished :
        ~log[i].ok =>
            /\ log[i].aborted \cap DOMAIN log[i].cache1 = {}
            /\ Extends(log[i].cache1, log[i].cache0)
            /\ DOMAIN log[i].cache1 = DOMAIN log[i].cache0 \cup log[i].wrote

C8_Witness ==
    \E i \in Finished :
        /\ ~log[i].ok
        /\ log[i].aborted # {}
        /\ log[i].wrote # {}
        /\ log[i].cache1 # log[i].cache0

\* C9: the value link returns holds no variable reference among the root
\* and its descendants (the visitors introduce none and the cache is written
\* only by link); a variable survives only as the origin of an Unknown.
C9_NoVariableLeft ==
    /\ \A i \in Finished : log[i].ok => ~HasVariable(log[i].val)
    /\ \A v \in DOMAIN cache : ~HasVariable(cache[v])

C9_Witness ==
    \E i \in Finished :
        /\ log[i].ok
        /\ Cardinality(VariablesOf(log[i].root)) > 1
        /\ HasUnknown(log[i].val, CircularReason)
        /\ HasUnknown(log[i].val, MissingReason)
        /\ log[i].val.o = <<>>

\* the visitor reports changed = false on v
Unchanged(v) == visitor_call(visitor, v).ok /\ ~visitor_call(visitor, v).m

\* the visitor reports changed = false on v and on every descendant of v
RECURSIVE Stable(_)
Stable(v) == Unchanged(v) /\ \A k \in DOMAIN v.ch : Stable(v.ch[k])

\* C10 as stated: with a visitor that reports changed = false on the
\* resolved value, link called on a value that an earlier call of link
\* returned (same graph, same cache) returns that value.
C10_IdempotentOnResult ==
    \A i \in Finished : \A j \in Finished :
        (/\ i < j
         /\ log[i].ok
         /\ Unchanged(log[i].val)
         /\ log[j].root = log[i].val)
        => log[j].ok /\ log[j].val = log[i].val

\* C10 amended: with a visitor that reports changed = false on the resolved
\* value and on every descendant of it (the circular-reference Unknowns
\* among them, which the first call never passed to the visitor), link
\* called on a value that an earlier call of link returned returns that
\* value.
C10_Idempotent ==
    \A i \in Finished : \A j \in Finished :
        (/\ i < j
         /\ log[i].ok
         /\ Stable(log[i].val)
         /\ log[j].root = log[i].val)
        => log[j].ok /\ log[j].val = log[i].val

C10_Witness ==
    \E i \in Finished : \E j \in Finished :
        /\ i < j
        /\ log[i].ok
        /\ log[i].val.ch # <<>>
        /\ log[i].val # normalize(log[i].root)
        /\ HasUnknown(log[i].val, CircularReason)
        /\ Stable(log[i].val)
        /\ log[j].root = log[i].val
        /\ log[j].val = log[i].val
        /\ log[j].visits > 1

(***************************************************************************)
(* link_internal as a function: the children of a value are resolved one   *)
(* after the other in the order of their slots.  The result is the outcome *)
(* (ok), the value, the set of replaced circular references and the cache  *)
(* left behind.                                                            *)
(***************************************************************************)
RECURSIVE visitor_loop(_, _)
\* lines 165-174
visitor_loop(val, modified) ==
    LET r == visitor_call(visitor, val)
    IN  IF ~r.ok THEN [ok |-> FALSE, val |-> val, modified |-> modified]
        ELSE IF r.m THEN visitor_loop(normalize_shallow(r.val), TRUE)
        ELSE [ok |-> TRUE, val |-> r.val, modified |-> modified]

RECURSIVE link_internal_seq(_, _, _)
RECURSIVE children_seq(_, _, _, _, _, _)
\* lines 118-157 with the children taken in slot order
children_seq(val, i, stack, c, modified, rcr) ==
    IF i > Len(val.ch)
    THEN [ok |-> TRUE, val |-> val, modified |-> modified, rcr |-> rcr, cache |-> c]
    ELSE LET r == link_internal_seq(val.ch[i], stack, c)
         IN  IF ~r.ok
             THEN [ok |-> FALSE, val |-> val, modified |-> modified,
                   rcr |-> rcr, cache |-> r.cache]
             ELSE IF r.set.some
             THEN children_seq([val EXCEPT !.ch[i] = normalize_shallow(r.val)],
                               i + 1, stack, r.cache, TRUE, rcr \cup r.set.s)
             ELSE children_seq([val EXCEPT !.ch[i] = r.val],
                               i + 1, stack, r.cache, modified, rcr)

\* lines 63-188
link_internal_seq(val, stack, c) ==
    IF val.t = "Variable"
    THEN LET var == val.id
         IN  IF IsCircular(stack, var)
             THEN [ok |-> TRUE, val |-> CircularUnknown(var),
                   set |-> Some({var}), cache |-> c]
             ELSE IF get(c, var) # <<>>
             THEN [ok |-> TRUE, val |-> get(c, var)[1], set |-> Some({}),
                   cache |-> c]
             ELSE LET r == link_internal_seq(Bound(var), stack \cup {var}, c)
                  IN  IF ~r.ok THEN r
                      ELSE [ok |-> TRUE, val |-> r.val,
                            set |-> Some(StrippedSet(r.set, var)),
                            cache |-> IF Admits(r.set, var)
                                      THEN store(r.cache, var, r.val)
                                      ELSE r.cache]
    ELSE LET k == children_seq(val, 1, stack, c, FALSE, {})
             v == visitor_loop(IF k.modified THEN normalize_shallow(k.val)
                                             ELSE k.val, k.modified)
         IN  IF ~k.ok THEN [ok |-> FALSE, val |-> val, set |-> None,
                            cache |-> k.cache]
             ELSE IF ~v.ok THEN [ok |-> FALSE, val |-> val, set |-> None,
                                 cache |-> k.cache]
             ELSE [ok |-> TRUE, val |-> v.val,
                   set |-> NodeResult(v.val, v.modified, k.rcr).set,
                   cache |-> k.cache]

\* link, lines 44-45
link_seq(root, c) == link_internal_seq(normalize(root), {}, c)

\* C11: with the graph, the visitor, the root and the initial cache fixed,
\* every execution of link gives the outcome, the value and the cache that
\* the execution taking the children in slot order gives, in whatever order
\* the fan-out resolves sibling children.
C11_OrderIndependent ==
    \A i \in Finished :
        LET r == link_seq(log[i].root, log[i].cache0)
        IN  /\ log[i].ok = r.ok
            /\ log[i].ok => log[i].val = r.val
            /\ log[i].cache1 = r.cache

\* the activations of link_internal started by a child_visitor
ChildCalls ==
    { g \in FrameIds : /\ frames[g].parent # 0
                       /\ frames[frames[g].parent].kind = "child" }

\* C12: every child of a fan-out starts its recursion with a circle stack
\* that holds every identity under resolution on its ancestor path, also
\* when a sibling is running: none starts with a stack that lacks an
\* ancestor because a sibling holds the loaned stack.
C12_ChildStackHoldsAncestors ==
    \A g \in ChildCalls : PathIds(frames[g].parent) \subseteq frames[g].cs0

\* the number of variables under resolution on the path to f
VarDepth(f) == Cardinality(AncSelf(f) \cap InProgress)

\* C13: with sibling children running concurrently, no identity is under
\* resolution twice on one recursion path, so that the depth of the
\* recursion counted in variables never exceeds the number of identities.
C13_NoReentryConcurrent ==
    /\ \A f \in InProgress : \A g \in InProgress :
          (g \in AncSelf(f) /\ g # f) => frames[g].val.id # frames[f].val.id
    /\ \A f \in FrameIds : VarDepth(f) <= Cardinality(Ids)

\* the activations of the Variable arm
VarFrames == { f \in FrameIds : frames[f].kind = "var" }

Moves(f, from, to) ==
    /\ f \in FrameIds /\ f \in DOMAIN frames'
    /\ frames[f].pc = from /\ frames'[f].pc = to

C16_StackBalanced ==
    \A f \in FrameIds :
        (frames[f].kind \in {"var", "node"} /\ frames[f].pc = "done")
            => stacks[frames[f].ref] = frames[f].cs0

\* the activations of the other arm of link_internal
NodeFrames == { f \in FrameIds : frames[f].kind = "node" }

\* C17: on a value with its children resolved the visitor is invoked until
\* the first invocation that reports no change and not again: while the loop
\* runs every invocation so far has reported a change, and when the
\* activation has returned the invocations are one more than the changes,
\* and the value returned is the one the last invocation returned, which
\* the visitor leaves unchanged.
C17_VisitorFixpoint ==
    \A f \in NodeFrames :
        /\ frames[f].pc \in {"start", "fanout"} => frames[f].calls = 0
        /\ frames[f].pc = "visit" => frames[f].calls = frames[f].changes
        /\ frames[f].pc = "done" =>
              /\ frames[f].calls = frames[f].changes + 1
              /\ visitor_call(visitor, frames[f].res.val) =
                     [ok |-> TRUE, val |-> frames[f].res.val, m |-> FALSE]
        /\ frames[f].pc = "err" =>
              frames[f].calls \in {0, frames[f].changes + 1}

\* an activation has returned after an invocation that reported a change
\* and a second one that did not
C17_Witness ==
    \E f \in NodeFrames :
        /\ frames[f].pc = "done"
        /\ frames[f].changes = 1 /\ frames[f].calls = 2

\* the sets the children of f have returned
KidSets(f) == { frames[f].kidres[i] : i \in DOMAIN frames[f].kidres }

\* C18: an activation on a value that is not a variable returns no set
\* exactly when no child returned a set and the first invocation of the
\* visitor reported no change; otherwise it returns the union of the sets its
\* children returned, where a child that returned a set, even an empty one,
\* counts as modified.
C18_CompositeResult ==
    \A f \in NodeFrames : frames[f].pc = "done" =>
        LET childmod == \E s \in KidSets(f) : s.some
            union == UNION { s.s : s \in KidSets(f) }
        IN  /\ ~frames[f].res.set.some
                  <=> (~childmod /\ frames[f].changes = 0)
            /\ frames[f].res.set.some => frames[f].res.set.s = union

\* an activation has returned the empty set because a child was answered
\* from the cache, without any change by the visitor; another has returned
\* no set
C18_Witness ==
    \E f \in NodeFrames : \E i \in DOMAIN frames[f].kidres :
        /\ frames[f].pc = "done"
        /\ frames[f].changes = 0
        /\ frames[f].res.set = Some({})
        /\ frames[f].val.ch[i].t = "Unknown"
        /\ frames[f].kidres[i] = Some({})
        /\ \E j \in DOMAIN frames[f].kidres : frames[f].kidres[j] = None

\* C19: an entry of the cache is stable: once an identity has a value in the
\* cache, every later write leaves that identity with the same value, also
\* when sibling children resolve the same variable concurrently.
C19_EntriesStable ==
    [][\A id \in DOMAIN cache : id \in DOMAIN cache' /\ cache'[id] = cache[id]]_vars

\* C20: the set of replaced circular references an activation of
\* link_internal returns names only identities that were in the circle stack
\* when the activation was entered; the outermost activation, entered with
\* the empty stack, returns no set or the empty set.
C20_SetWithinEntryStack ==
    /\ \A f \in FrameIds :
          (frames[f].kind \in {"var", "node"} /\ frames[f].pc = "done")
              => frames[f].res.set.s \subseteq frames[f].cs0
    /\ \A i \in Finished : log[i].ok => log[i].set.s = {}

\* an activation entered below two open variables has returned a set that
\* names one of them
C20_Witness ==
    /\ \E f \in FrameIds :
          /\ frames[f].kind \in {"var", "node"} /\ frames[f].pc = "done"
          /\ Cardinality(frames[f].cs0) = 2
          /\ Cardinality(frames[f].res.set.s) = 1
    /\ probe.circ

=============================================================================
